---- MODULE Spec2Model ----
(***************************************************************************)
(* Collision detection & publish-confirm pipeline of rtm-vts.              *)
(*                                                                         *)
(*   calculate_and_store_collisions  reconciles the DetectedCollision      *)
(*                                   table (the ledger) with the detector  *)
(*                                   output, in one database transaction   *)
(*   publish_new_collisions          publishes unpublished records over    *)
(*                                   MQTT and marks the confirmed ones     *)
(*   run_cron                        runs fetch, reconcile --no-clear and  *)
(*                                   publish in sequence                   *)
(*                                                                         *)
(* The reconciliation is one action (it is one transaction.atomic block).  *)
(* The publish pass is a sequence of steps, one per blocking call          *)
(* (connect, each publish + wait_for_publish, the mark transaction, the    *)
(* cleanup), so that the process can be terminated between them.           *)
(***************************************************************************)
EXTENDS Integers, Sequences, FiniteSets, TLC

\* ------------------------------------------------------------ bounds
\* highest primary key the table hands out in a run of the model
MaxId == 3
\* longest detector result list handed to one reconciliation
MaxCand == 2
\* longest attribute value (route identifier, severity, category) of a record
MaxSeg == 2
\* the per-record count of submitted publishes saturates here
MaxSent == 2

\* ------------------------------------------------------------ domains
TransitIds == {1, 2}
RouteIds == {1}
TransitLons == {10}
TransitLats == {69}
DefaultTolerance == 300
Tolerances == {DefaultTolerance}
Ids == 1..MaxId

\* one row of calculate_collisions_for_storage's result
Candidates == [transit_id : TransitIds, route_id : RouteIds,
               transit_lon : TransitLons, transit_lat : TransitLats]

RECURSIVE SeqsUpTo(_, _)
SeqsUpTo(S, n) ==
    IF n = 0 THEN {<<>>}
    ELSE LET shorter == SeqsUpTo(S, n - 1)
         IN shorter \cup {Append(s, x) : s \in {t \in shorter : Len(t) = n - 1}, x \in S}

CandidateLists == SeqsUpTo(Candidates, MaxCand)

Range(s) == {s[i] : i \in 1..Len(s)}

\* what one iteration of the publish loop can end in
Outcomes == {"confirmed", "timeout", "ack_error", "publish_error",
             "serialize_error", "attr_error"}
\* the outcomes in which mqtt_client.publish returned, i.e. the message was
\* handed to the transport
Submitted == {"confirmed", "timeout", "ack_error"}

NoReport == [kind |-> "none"]
NoRecon == [kind |-> "none"]

VARIABLES
    ledger,                 \* the DetectedCollision table: a set of rows
    nextId,                 \* the table's AUTOINCREMENT counter
    clock,                  \* server time read by auto_now_add
    orch,                   \* run_cron: "idle", "fetch", "calc", "publish", then
                            \* "finished" (final success line) or "aborted" (CommandError)
    pc,                     \* the running command: "idle"; "stored" (reconciliation ended);
                            \* "connect", "loop", "mark", "cleanup", "done" (publish pass)
    collisions_to_publish,  \* the evaluated queryset: ids, oldest first
    idx,                    \* position of the publish loop in it
    processed_count,
    published_count,
    publish_failures,
    ids_to_mark_published,
    successfully_marked_ids,
    db_update_failed_flag,
    updated_count,
    mqtt_client,            \* "none", "created", "connected", "lost", "stopped", "closed"
    report,                 \* what the pass wrote last: the summary, or an early return
    recon,                  \* what the reconciliation that just ended was given and wrote
    outcomes,               \* history: the outcome of each loop iteration of this pass
    acked,                  \* history: live ids whose publish the broker acknowledged
    sent,                   \* history: per live id, publishes handed to the transport
    crash_confirmed,        \* history: live ids confirmed in a pass that was killed unmarked
    situations,             \* the VtsSituation table
    routes,                 \* the BusRoute table
    api_metadata,           \* the ApiMetadata row 'last_modified_date': its value, or None
    call,                   \* the last call of the detector, the topic builder, the read
                            \* endpoint or the fetch command: what it was given and returned
    suspended               \* the publish pass of a second process while this one
                            \* runs: its position, its local variables, its client

vars == <<ledger, nextId, clock, orch, pc, collisions_to_publish, idx,
          processed_count, published_count, publish_failures,
          ids_to_mark_published, successfully_marked_ids,
          db_update_failed_flag, updated_count, mqtt_client, report,
          recon, outcomes, acked, sent, crash_confirmed,
          situations, routes, api_metadata, call, suspended>>

locals == <<collisions_to_publish, idx, processed_count, published_count,
            publish_failures, ids_to_mark_published, successfully_marked_ids,
            db_update_failed_flag, updated_count, outcomes>>

history == <<acked, sent, crash_confirmed>>

\* what the reconciliation, the publish pass and run_cron's own code never write
outside == <<situations, routes, api_metadata, call, suspended>>

\* Python's None and SQL's NULL
None == [kind |-> "null"]
NoCall == [fn |-> "none"]

\* ------------------------------------------------------------ the ledger
LedgerIds(l) == {r.id : r \in l}
Pair(r) == <<r.transit_information_id, r.bus_route_id>>
LedgerPairs(l) == {Pair(r) : r \in l}
Row(l, id) == CHOOSE r \in l : r.id = id
UnpublishedIds(l) == {r.id : r \in {q \in l : ~q.published_to_mqtt}}
PublishedIds(l) == {r.id : r \in {q \in l : q.published_to_mqtt}}

\* ------------------------------------------------------------ reconciliation
\* DetectedCollision(...) as built in the loop; published_to_mqtt takes the
\* model default False, detection_timestamp is auto_now_add
NewRow(data, id, tolerance, now) ==
    [id |-> id,
     transit_information_id |-> data.transit_id,
     bus_route_id |-> data.route_id,
     transit_lon |-> data.transit_lon,
     transit_lat |-> data.transit_lat,
     tolerance_meters |-> tolerance,
     detection_timestamp |-> now,
     published_to_mqtt |-> FALSE]

\* Meta.unique_together = ('transit_information', 'bus_route'): no two rows
\* of the table have the same pair
UniqueTogether(l) ==
    \A r, q \in l : Pair(r) = Pair(q) => r = q

\* faulty variant: the pairs already stored are not read
ExistingPairsNone(l, clear_existing) == {}

\* the set of (transit_information_id, bus_route_id) read when not clearing
ExistingPairs(l, clear_existing) ==
    IF clear_existing THEN {} ELSE LedgerPairs(l)

\* faulty variant: a pair met twice in one result is queued twice
RECURSIVE PrepareLoopNoSeenCheck(_, _, _, _, _, _, _)
PrepareLoopNoSeenCheck(calculated_data, i, clear_existing, existing_pairs_set, seen_in_this_run, collisions_to_create, skipped_count) ==
    IF i > Len(calculated_data)
    THEN [create |-> collisions_to_create, skipped |-> skipped_count]
    ELSE LET pair == <<calculated_data[i].transit_id, calculated_data[i].route_id>>
         IN IF ~clear_existing /\ pair \in existing_pairs_set
            THEN PrepareLoopNoSeenCheck(calculated_data, i + 1, clear_existing,
                                        existing_pairs_set, seen_in_this_run,
                                        collisions_to_create, skipped_count + 1)
            ELSE PrepareLoopNoSeenCheck(calculated_data, i + 1, clear_existing,
                                        existing_pairs_set, seen_in_this_run,
                                        Append(collisions_to_create, calculated_data[i]),
                                        skipped_count)

\* the for-loop over calculated_data: what is queued for bulk_create and how
\* many rows were skipped
RECURSIVE PrepareLoop(_, _, _, _, _, _, _)
PrepareLoop(calculated_data, i, clear_existing, existing_pairs_set, seen_in_this_run, collisions_to_create, skipped_count) ==
    IF i > Len(calculated_data)
    THEN [create |-> collisions_to_create, skipped |-> skipped_count]
    ELSE LET pair == <<calculated_data[i].transit_id, calculated_data[i].route_id>>
         IN IF ~clear_existing /\ pair \in existing_pairs_set
            THEN PrepareLoop(calculated_data, i + 1, clear_existing,
                             existing_pairs_set, seen_in_this_run,
                             collisions_to_create, skipped_count + 1)
            ELSE IF pair \in seen_in_this_run
            THEN PrepareLoop(calculated_data, i + 1, clear_existing,
                             existing_pairs_set, seen_in_this_run,
                             collisions_to_create, skipped_count + 1)
            ELSE PrepareLoop(calculated_data, i + 1, clear_existing,
                             existing_pairs_set, seen_in_this_run \cup {pair},
                             Append(collisions_to_create, calculated_data[i]),
                             skipped_count)

\* faulty variant: the loop walks the result from its end
PrepareFromEnd(l, calculated_data, clear_existing) ==
    PrepareLoop([i \in 1..Len(calculated_data) |->
                    calculated_data[Len(calculated_data) + 1 - i]],
                1, clear_existing, ExistingPairs(l, clear_existing), {}, <<>>, 0)

Prepare(l, calculated_data, clear_existing) ==
    PrepareLoop(calculated_data, 1, clear_existing,
                ExistingPairs(l, clear_existing), {}, <<>>, 0)

\* faulty variant: the clearing spares rows that were already published
AfterClearKeepsPublished(l, clear_existing) ==
    IF clear_existing THEN {r \in l : r.published_to_mqtt} ELSE l

\* DetectedCollision.objects.all().delete() when clearing
AfterClear(l, clear_existing) ==
    IF clear_existing THEN {} ELSE l

\* bulk_create: the rows get consecutive primary keys and the server time.
\* auto_now_add reads the clock once per row, moments apart; the rows of one
\* call get one clock value here, which leaves their order in a later
\* order_by('detection_timestamp') open
BulkCreate(collisions_to_create, first_id, tolerance, now) ==
    {NewRow(collisions_to_create[j], first_id + j - 1, tolerance, now) :
        j \in 1..Len(collisions_to_create)}

\* faulty variant: the rows that stay are written again with the default flag
ReconciledResetting(l, calculated_data, clear_existing, first_id, tolerance, now) ==
    {[r EXCEPT !.published_to_mqtt = FALSE] : r \in AfterClear(l, clear_existing)} \cup
    BulkCreate(Prepare(l, calculated_data, clear_existing).create,
               first_id, tolerance, now)

\* faulty variant: a stored row whose pair is in the result takes the result's
\* coordinates and tolerance
ReconciledUpdating(l, calculated_data, clear_existing, first_id, tolerance, now) ==
    {IF \E d \in Range(calculated_data) : <<d.transit_id, d.route_id>> = Pair(r)
     THEN LET d == CHOOSE c \in Range(calculated_data) :
                      <<c.transit_id, c.route_id>> = Pair(r)
          IN [r EXCEPT !.transit_lon = d.transit_lon,
                       !.transit_lat = d.transit_lat,
                       !.tolerance_meters = tolerance]
     ELSE r : r \in AfterClear(l, clear_existing)} \cup
    BulkCreate(Prepare(l, calculated_data, clear_existing).create,
               first_id, tolerance, now)

\* the table after the transaction.atomic block committed
Reconciled(l, calculated_data, clear_existing, first_id, tolerance, now) ==
    AfterClear(l, clear_existing) \cup
    BulkCreate(Prepare(l, calculated_data, clear_existing).create,
               first_id, tolerance, now)

\* where an exception can hit the atomic block: nowhere, in delete() or
\* values_list(), in bulk_create, or in the COMMIT at the end of the block
\* (a locked database, a deferred foreign key check)
DbFailures == {"none", "clear_or_read", "bulk_create", "commit"}

\* faulty variant: the delete() is committed on its own, before the insert
RolledBackAfterClear(l, clear_existing) ==
    AfterClear(l, clear_existing)

\* the table after an exception left the transaction.atomic block: the
\* delete() and the inserts of the block are undone together
RolledBack(l, clear_existing) == l

\* the detector: the rows the distance query found, or the empty list when
\* the query raised (its except clause prints the error and returns [])
calculate_collisions_for_storage(found, query_raises) ==
    IF query_raises THEN <<>> ELSE found

\* calculate_and_store_collisions.handle: the detector is called and its
\* result reconciled; an exception inside the atomic block rolls the whole
\* block back and is swallowed by the handler, which then prints its counts
StoreCollisions(found, query_raises, clear_existing, tolerance, db_fails) ==
    LET calculated_data == calculate_collisions_for_storage(found, query_raises)
        prep == Prepare(ledger, calculated_data, clear_existing)
        n == Len(prep.create)
        after == Reconciled(ledger, calculated_data, clear_existing,
                            nextId, tolerance, clock)
    IN /\ nextId + n - 1 <= MaxId
       /\ db_fails = "bulk_create" => n > 0
       /\ db_fails = "commit" => (n > 0 \/ (clear_existing /\ ledger # {}))
       /\ query_raises => found = <<>>
       /\ pc' = "stored"
       /\ recon' = [kind |-> "reconcile",
                    query_failed |-> query_raises,
                    clear_existing |-> clear_existing,
                    calculated_data |-> calculated_data,
                    first_id |-> nextId,
                    deleted_count |-> IF clear_existing /\ db_fails # "clear_or_read"
                                      THEN Cardinality(ledger) ELSE 0,
                    committed |-> (db_fails = "none"),
                    created_count |-> IF db_fails \in {"none", "commit"} THEN n ELSE 0,
                    skipped_count |-> IF db_fails = "clear_or_read" THEN 0
                                      ELSE prep.skipped]
       /\ IF db_fails # "none"
          THEN /\ ledger' = RolledBack(ledger, clear_existing)
               /\ UNCHANGED <<nextId, clock, history>>
          ELSE /\ ledger' = after
               /\ nextId' = nextId + n
               /\ clock' = IF n > 0 THEN clock + 1 ELSE clock
               /\ acked' = acked \cap LedgerIds(after)
               /\ crash_confirmed' = crash_confirmed \cap LedgerIds(after)
               /\ sent' = [i \in Ids |-> IF i \in LedgerIds(after) THEN sent[i] ELSE 0]
       /\ UNCHANGED <<orch, locals, mqtt_client, report>>
       /\ UNCHANGED outside

\* the command run on its own, with or without --no-clear
Reconcile ==
    /\ orch = "idle"
    /\ pc = "idle"
    /\ \E found \in CandidateLists, query_raises \in BOOLEAN,
          clear_existing \in BOOLEAN, tolerance \in Tolerances,
          db_fails \in DbFailures :
          StoreCollisions(found, query_raises, clear_existing, tolerance, db_fails)

\* faulty variant: an exception of any command ends the sequence
OrchAbortsOnAnyError(cmd_name, raised) ==
    IF raised
    THEN "aborted"
    ELSE CASE cmd_name = "fetch_vts_situations" -> "calc"
           [] cmd_name = "calculate_and_store_collisions" -> "publish"
           [] cmd_name = "publish_new_collisions" -> "finished"

\* run_cron's loop after call_command came back: an exception of the fetch
\* or the calculate command is raised again and ends the sequence, one of the
\* publish command is logged; otherwise the next command runs, and after the
\* last one the final success line is written
OrchAfterCommand(cmd_name, raised) ==
    IF raised /\ cmd_name \in {"fetch_vts_situations", "calculate_and_store_collisions"}
    THEN "aborted"
    ELSE CASE cmd_name = "fetch_vts_situations" -> "calc"
           [] cmd_name = "calculate_and_store_collisions" -> "publish"
           [] cmd_name = "publish_new_collisions" -> "finished"

\* the command returns to its caller. The handler has swallowed a failure of
\* the query or of the transaction; what can still leave it as an exception
\* is a failure outside its try block (writing the result line)
StoreReturn ==
    /\ pc = "stored"
    /\ pc' = "idle"
    /\ recon' = NoRecon
    /\ \E raised \in BOOLEAN :
          orch' = IF orch = "calc"
                  THEN OrchAfterCommand("calculate_and_store_collisions", raised)
                  ELSE orch
    /\ UNCHANGED <<ledger, nextId, clock, locals, mqtt_client, report, history>>
    /\ UNCHANGED outside

\* ------------------------------------------------------------ publish pass
Min(a, b) == IF a < b THEN a ELSE b

\* faulty variant: the query orders by '-detection_timestamp', newest first
SelectionsNewestFirst(l) ==
    LET ids == UnpublishedIds(l)
        n == Cardinality(ids)
    IN {s \in [1..n -> ids] :
          /\ \A i, j \in 1..n : i # j => s[i] # s[j]
          /\ \A i, j \in 1..n : i < j =>
                Row(l, s[i]).detection_timestamp >= Row(l, s[j]).detection_timestamp}

\* faulty variant: the query has no published_to_mqtt filter
SelectionsOfAll(l) ==
    LET ids == LedgerIds(l)
        n == Cardinality(ids)
    IN {s \in [1..n -> ids] :
          /\ \A i, j \in 1..n : i # j => s[i] # s[j]
          /\ \A i, j \in 1..n : i < j =>
                Row(l, s[i]).detection_timestamp <= Row(l, s[j]).detection_timestamp}

\* filter(published_to_mqtt=False).order_by('detection_timestamp'): every
\* order of the unpublished rows that is ascending in the timestamp (rows
\* with equal timestamps come in an order the database chooses)
Selections(l) ==
    LET ids == UnpublishedIds(l)
        n == Cardinality(ids)
    IN {s \in [1..n -> ids] :
          /\ \A i, j \in 1..n : i # j => s[i] # s[j]
          /\ \A i, j \in 1..n : i < j =>
                Row(l, s[i]).detection_timestamp <= Row(l, s[j]).detection_timestamp}

\* the prerequisite checks and the database read before the connection
StartEnvs == {"ok", "no_mqtt_lib", "no_host", "db_error"}

ResetLocals ==
    /\ collisions_to_publish' = <<>>
    /\ idx' = 0
    /\ processed_count' = 0
    /\ published_count' = 0
    /\ publish_failures' = 0
    /\ ids_to_mark_published' = <<>>
    /\ successfully_marked_ids' = <<>>
    /\ db_update_failed_flag' = FALSE
    /\ updated_count' = 0
    /\ outcomes' = <<>>

\* faulty variant: the client is created before the broker host is checked
ClientCreatedFirst(env) ==
    IF env = "no_host" THEN "created" ELSE "none"

\* the client before the connection block: the prerequisite and
\* configuration checks return before mqtt_client is even assigned, and the
\* query runs with mqtt_client = None
ClientBeforeConnect(env) == "none"

\* faulty variant: the pass goes on to the broker with an empty selection
NothingToPublishNever(selection) == FALSE

\* if not collisions_to_publish
NothingToPublish(selection) == Len(selection) = 0

\* handle, up to the connection: prerequisite checks, configuration, the
\* query for unpublished rows and its count
SelectStep(env) ==
    /\ pc = "idle"
    /\ orch \in {"idle", "publish"}
    /\ IF env # "ok"
       THEN /\ pc' = "done"
            /\ report' = [kind |-> "early", outcome |-> env]
            /\ mqtt_client' = ClientBeforeConnect(env)
            /\ UNCHANGED locals
       ELSE \E selection \in Selections(ledger) :
               /\ collisions_to_publish' = selection
               /\ processed_count' = Len(selection)
               /\ IF NothingToPublish(selection)
                  THEN /\ pc' = "done"
                       /\ report' = [kind |-> "early", outcome |-> "nothing_found"]
                  ELSE /\ pc' = "connect"
                       /\ report' = report
               /\ mqtt_client' = ClientBeforeConnect(env)
               /\ UNCHANGED <<idx, published_count, publish_failures,
                              ids_to_mark_published, successfully_marked_ids,
                              db_update_failed_flag, updated_count, outcomes>>
    /\ UNCHANGED <<ledger, nextId, clock, orch, recon, history>>
    /\ UNCHANGED outside

PublishStart ==
    \E env \in StartEnvs : SelectStep(env)

\* what the connection block can end in
ConnectResults == {"ok", "client_raises", "connect_raises", "not_connected"}

\* the state of the client on each exit of the connection block: both except
\* handlers call loop_stop() when a client exists, neither calls disconnect()
ClientAfterConnect(result) ==
    CASE result = "ok" -> "connected"
      [] result = "client_raises" -> "none"
      [] result = "connect_raises" -> "stopped"
      [] result = "not_connected" -> "stopped"

\* mqtt.Client(...), connect(), loop_start(), sleep, is_connected()
ConnectStep(result) ==
    /\ pc = "connect"
    /\ mqtt_client' = ClientAfterConnect(result)
    /\ IF result = "ok"
       THEN /\ pc' = "loop"
            /\ idx' = 1
            /\ report' = report
       ELSE /\ pc' = "done"
            /\ idx' = idx
            /\ report' = [kind |-> "early", outcome |-> "connect_failed"]
    /\ UNCHANGED <<ledger, nextId, clock, orch, recon, history,
                   collisions_to_publish, processed_count, published_count,
                   publish_failures, ids_to_mark_published,
                   successfully_marked_ids, db_update_failed_flag,
                   updated_count, outcomes>>
    /\ UNCHANGED outside

Connect ==
    \E result \in ConnectResults : ConnectStep(result)

\* the background network loop loses the connection, or gets it back
ConnLost ==
    /\ pc = "loop"
    /\ mqtt_client = "connected"
    /\ mqtt_client' = "lost"
    /\ UNCHANGED <<ledger, nextId, clock, orch, pc, locals, report, recon, history>>
    /\ UNCHANGED outside

Reconnect ==
    /\ pc = "loop"
    /\ mqtt_client = "lost"
    /\ mqtt_client' = "connected"
    /\ UNCHANGED <<ledger, nextId, clock, orch, pc, locals, report, recon, history>>
    /\ UNCHANGED outside

\* faulty variant: a wait that timed out is taken for a confirmation
ConfirmedOrTimedOut(outcome) == outcome \in {"confirmed", "timeout"}

\* the bookkeeping of one loop iteration: only an iteration in which
\* is_published() was true counts as published and queues the id
Confirmed(outcome) == outcome = "confirmed"

CountPublished(count, outcome) ==
    IF Confirmed(outcome) THEN count + 1 ELSE count

\* faulty variant: a wait that timed out is counted neither way
CountFailuresButTimeouts(count, outcome) ==
    IF outcome \in {"confirmed", "timeout"} THEN count ELSE count + 1

\* faulty variant: every iteration counts a failure
CountFailuresAlways(count, outcome) == count + 1

CountFailures(count, outcome) ==
    IF Confirmed(outcome) THEN count ELSE count + 1

\* faulty variant: the id is queued as soon as publish() returned
QueueWhenSubmitted(ids, id, outcome) ==
    IF outcome \in Submitted THEN Append(ids, id) ELSE ids

QueueForMark(ids, id, outcome) ==
    IF Confirmed(outcome) THEN Append(ids, id) ELSE ids

\* faulty variant: a confirmed row is marked at once, inside the loop
LedgerMarkedInLoop(l, id, outcome) ==
    IF outcome = "confirmed"
    THEN {IF r.id = id THEN [r EXCEPT !.published_to_mqtt = TRUE] ELSE r : r \in l}
    ELSE l

\* the loop body writes nothing to the database
LedgerAfterIteration(l, id, outcome) == l

\* faulty variant: a failed iteration leaves the loop
NextIndexBreaks(i, outcome) ==
    IF outcome = "confirmed" THEN i + 1 ELSE Len(collisions_to_publish) + 1

\* the position after an iteration; every branch (continue, except, fall
\* through) goes on with the next row
NextIndex(i, outcome) == i + 1

\* one iteration of the publish loop: payload, topic, publish, wait, check
PublishStep(outcome) ==
    LET id == collisions_to_publish[idx]
    IN /\ pc = "loop"
       /\ idx <= Len(collisions_to_publish)
       /\ outcome = "confirmed" => mqtt_client = "connected"
       /\ published_count' = CountPublished(published_count, outcome)
       /\ publish_failures' = CountFailures(publish_failures, outcome)
       /\ ids_to_mark_published' = QueueForMark(ids_to_mark_published, id, outcome)
       /\ outcomes' = Append(outcomes, outcome)
       /\ idx' = NextIndex(idx, outcome)
       /\ pc' = IF idx' > Len(collisions_to_publish) THEN "mark" ELSE "loop"
       /\ sent' = IF outcome \in Submitted /\ id \in LedgerIds(ledger)
                  THEN [sent EXCEPT ![id] = Min(@ + 1, MaxSent)]
                  ELSE sent
       /\ acked' = IF outcome = "confirmed" /\ id \in LedgerIds(ledger)
                   THEN acked \cup {id}
                   ELSE acked
       /\ ledger' = LedgerAfterIteration(ledger, id, outcome)
       /\ UNCHANGED <<nextId, clock, orch, mqtt_client, report, recon,
                      crash_confirmed, collisions_to_publish, processed_count,
                      successfully_marked_ids, db_update_failed_flag,
                      updated_count>>
       /\ UNCHANGED outside

PublishRecord ==
    \E outcome \in Outcomes : PublishStep(outcome)

\* faulty variant: the update filters on published_to_mqtt=True and matches nothing
MarkUpdateOfPublished(l, ids) ==
    {IF r.id \in ids /\ r.published_to_mqtt
     THEN [r EXCEPT !.published_to_mqtt = TRUE]
     ELSE r : r \in l}

\* faulty variant: the update has no id__in filter
MarkUpdateOfAll(l, ids) ==
    {[r EXCEPT !.published_to_mqtt = TRUE] : r \in l}

\* filter(id__in=ids, published_to_mqtt=False).update(published_to_mqtt=True)
MarkUpdate(l, ids) ==
    {IF r.id \in ids /\ ~r.published_to_mqtt
     THEN [r EXCEPT !.published_to_mqtt = TRUE]
     ELSE r : r \in l}

\* faulty variant: the transaction that raised leaves its update behind
MarkKeptOnFailure(l, ids) ==
    MarkUpdate(l, ids)

\* the table after the mark transaction raised: transaction.atomic rolled back
MarkRolledBack(l, ids) == l

\* the rows the update matched
MarkMatches(l, ids) ==
    {r \in l : r.id \in ids /\ ~r.published_to_mqtt}

\* the mark block: nothing when no id is queued, else one transaction that
\* commits or raises
MarkStep(commits) ==
    /\ pc = "mark"
    /\ pc' = "cleanup"
    /\ IF ids_to_mark_published = <<>>
       THEN UNCHANGED <<ledger, successfully_marked_ids,
                        db_update_failed_flag, updated_count>>
       ELSE IF commits
       THEN /\ ledger' = MarkUpdate(ledger, Range(ids_to_mark_published))
            /\ updated_count' =
                  Cardinality(MarkMatches(ledger, Range(ids_to_mark_published)))
            /\ successfully_marked_ids' = ids_to_mark_published
            /\ db_update_failed_flag' = FALSE
       ELSE /\ ledger' = MarkRolledBack(ledger, Range(ids_to_mark_published))
            /\ updated_count' = updated_count
            /\ successfully_marked_ids' = <<>>
            /\ db_update_failed_flag' = TRUE
    /\ UNCHANGED <<nextId, clock, orch, mqtt_client, report, recon, history,
                   collisions_to_publish, idx, processed_count,
                   published_count, publish_failures, ids_to_mark_published,
                   outcomes>>
    /\ UNCHANGED outside

Mark ==
    \E commits \in BOOLEAN :
        /\ (ids_to_mark_published = <<>> => commits)
        /\ MarkStep(commits)

\* the cleanup block: a connected client is stopped and disconnected, any
\* other client is only stopped
ClientAfterCleanup(client) ==
    CASE client = "connected" -> "closed"
      [] client = "none" -> "none"
      [] OTHER -> "stopped"

\* faulty variant: the summary looks at the marked count only
SummaryOutcomeByMarked(processed, published, marked, db_failed) ==
    IF marked = 0 /\ processed > 0 THEN "none_published"
    ELSE IF published # marked THEN "count_mismatch"
    ELSE "success"

\* the final summary: the four counts and the branch that prints them
SummaryOutcome(processed, published, marked, db_failed) ==
    IF db_failed THEN "db_update_failed"
    ELSE IF published # marked THEN "count_mismatch"
    ELSE IF published = 0 /\ processed > 0 THEN "none_published"
    ELSE "success"

\* faulty variant: every row of the batch is reported as marked
MarkedCountOfBatch == processed_count

MarkedCount == Len(successfully_marked_ids)

Summary ==
    [kind |-> "summary",
     found |-> processed_count,
     confirmed |-> published_count,
     failed |-> publish_failures,
     marked |-> MarkedCount,
     outcome |-> SummaryOutcome(processed_count, published_count,
                                MarkedCount, db_update_failed_flag)]

Finish ==
    /\ pc = "cleanup"
    /\ pc' = "done"
    /\ mqtt_client' = ClientAfterCleanup(mqtt_client)
    /\ report' = Summary
    /\ UNCHANGED <<ledger, nextId, clock, orch, recon, locals, history>>
    /\ UNCHANGED outside

\* the command returns; its local state and its output are gone. Every
\* failure of the pass was caught and reported by the handler; what can still
\* leave it as an exception is a failure outside its try blocks
PublishReturn ==
    /\ pc = "done"
    /\ pc' = "idle"
    /\ \E raised \in BOOLEAN :
          orch' = IF orch = "publish"
                  THEN OrchAfterCommand("publish_new_collisions", raised)
                  ELSE orch
    /\ ResetLocals
    /\ mqtt_client' = "none"
    /\ report' = NoReport
    /\ UNCHANGED <<ledger, nextId, clock, recon, history>>
    /\ UNCHANGED outside

\* the process is terminated in the middle of a pass
Crash ==
    /\ \/ pc \in {"connect", "loop", "mark", "cleanup"}
       \/ pc = "idle" /\ orch # "idle"
    /\ pc' = "idle"
    /\ orch' = "idle"
    /\ ResetLocals
    /\ mqtt_client' = "none"
    /\ report' = NoReport
    /\ crash_confirmed' = IF pc \in {"loop", "mark"}
                          THEN crash_confirmed \cup
                               (Range(ids_to_mark_published) \cap LedgerIds(ledger))
                          ELSE crash_confirmed
    /\ UNCHANGED <<ledger, nextId, clock, recon, acked, sent>>
    /\ UNCHANGED outside

\* ------------------------------------------------------------ run_cron
OrchStart ==
    /\ orch = "idle"
    /\ pc = "idle"
    /\ orch' = "fetch"
    /\ UNCHANGED <<ledger, nextId, clock, pc, locals, mqtt_client, report,
                   recon, history>>
    /\ UNCHANGED outside

\* fetch_vts_situations returns, or raises and the sequence is aborted
OrchFetch ==
    /\ orch = "fetch"
    /\ pc = "idle"
    /\ \E raised \in BOOLEAN :
          orch' = OrchAfterCommand("fetch_vts_situations", raised)
    /\ UNCHANGED <<ledger, nextId, clock, pc, locals, mqtt_client, report,
                   recon, history>>
    /\ UNCHANGED outside

\* call_command('calculate_and_store_collisions', no_clear=True)
\* faulty variant: no command of the sequence is given no_clear
NoClearArgNone(cmd_name) == FALSE

\* commands_to_run: the 'no_clear': True argument of the calculate command
NoClearArg(cmd_name) == cmd_name = "calculate_and_store_collisions"

\* clear_existing = not options['no_clear']
ClearExisting(no_clear) == ~no_clear

OrchCalc ==
    /\ orch = "calc"
    /\ pc = "idle"
    /\ \E found \in CandidateLists, query_raises \in BOOLEAN,
          db_fails \in DbFailures :
          StoreCollisions(found, query_raises,
                          ClearExisting(NoClearArg("calculate_and_store_collisions")),
                          DefaultTolerance, db_fails)

\* run_cron returns after the final line, or with the CommandError it raised
OrchExit ==
    /\ orch \in {"finished", "aborted"}
    /\ pc = "idle"
    /\ orch' = "idle"
    /\ UNCHANGED <<ledger, nextId, clock, pc, locals, mqtt_client, report,
                   recon, history>>
    /\ UNCHANGED outside

\* ------------------------------------------------------------ specification
\* a publish pass that has not started
NoPass ==
    [pc |-> "idle",
     collisions_to_publish |-> <<>>,
     idx |-> 0,
     processed_count |-> 0,
     published_count |-> 0,
     publish_failures |-> 0,
     ids_to_mark_published |-> <<>>,
     successfully_marked_ids |-> <<>>,
     db_update_failed_flag |-> FALSE,
     updated_count |-> 0,
     outcomes |-> <<>>,
     mqtt_client |-> "none",
     report |-> NoReport]

\* no collision stored, no command running
Idle ==
    /\ ledger = {}
    /\ nextId = 1
    /\ clock = 1
    /\ orch = "idle"
    /\ pc = "idle"
    /\ collisions_to_publish = <<>>
    /\ idx = 0
    /\ processed_count = 0
    /\ published_count = 0
    /\ publish_failures = 0
    /\ ids_to_mark_published = <<>>
    /\ successfully_marked_ids = <<>>
    /\ db_update_failed_flag = FALSE
    /\ updated_count = 0
    /\ mqtt_client = "none"
    /\ report = NoReport
    /\ recon = NoRecon
    /\ outcomes = <<>>
    /\ acked = {}
    /\ sent = [i \in Ids |-> 0]
    /\ crash_confirmed = {}
    /\ suspended = NoPass

\* the database after the migrations: every table is empty. The
\* reconciliation takes the detector's rows as an input (found), so the
\* geometry tables stay empty wherever the detector itself is not run
Init ==
    /\ Idle
    /\ situations = {}
    /\ routes = {}
    /\ api_metadata = None
    /\ call = NoCall

Next ==
    \/ Reconcile
    \/ StoreReturn
    \/ PublishStart
    \/ Connect
    \/ ConnLost
    \/ Reconnect
    \/ PublishRecord
    \/ Mark
    \/ Finish
    \/ PublishReturn
    \/ Crash
    \/ OrchStart
    \/ OrchFetch
    \/ OrchCalc
    \/ OrchExit

Spec == Init /\ [][Next]_vars

\* run_cron invoked again and again, nothing else touching the table, every
\* publish that is handed to the transport acknowledged, every mark
\* transaction committing, no process killed
OrchPublishStart ==
    /\ orch = "publish"
    /\ \E env \in StartEnvs : SelectStep(env)

AckedPublish ==
    \E outcome \in Outcomes \ {"timeout", "ack_error"} : PublishStep(outcome)

MarkCommits ==
    MarkStep(TRUE)

NextOrch ==
    \/ OrchStart
    \/ OrchFetch
    \/ OrchCalc
    \/ StoreReturn
    \/ OrchPublishStart
    \/ Connect
    \/ AckedPublish
    \/ MarkCommits
    \/ Finish
    \/ PublishReturn
    \/ OrchExit

SpecOrch == Init /\ [][NextOrch]_vars

\* the system under the assumptions of at-least-once delivery. No process
\* is killed mid-pass (a killed pass leaves the table as a pass does whose
\* publishes all failed, so no table is lost by leaving Crash out); commands
\* that were started go on; publish passes keep being started with a working
\* configuration; the broker is reached again and again, acknowledges a
\* publish of each row again and again, and the mark transaction commits
\* again and again
ConfirmOf(id) ==
    /\ pc = "loop"
    /\ idx <= Len(collisions_to_publish)
    /\ collisions_to_publish[idx] = id
    /\ PublishStep("confirmed")

MarkCommitsQueued ==
    /\ ids_to_mark_published # <<>>
    /\ MarkStep(TRUE)

\* one outcome of each kind: acknowledged, handed over but not
\* acknowledged, not handed over
LiveOutcomes == {"confirmed", "timeout", "serialize_error"}

LivePublish ==
    \E outcome \in LiveOutcomes : PublishStep(outcome)

Progress ==
    \/ StoreReturn
    \/ OrchFetch
    \/ OrchCalc
    \/ LivePublish
    \/ Mark
    \/ Finish
    \/ PublishReturn
    \/ OrchExit

NextLive ==
    \/ Reconcile
    \/ StoreReturn
    \/ PublishStart
    \/ Connect
    \/ LivePublish
    \/ Mark
    \/ Finish
    \/ PublishReturn
    \/ OrchStart
    \/ OrchFetch
    \/ OrchCalc
    \/ OrchExit

Fairness ==
    /\ WF_vars(Progress)
    /\ SF_vars(SelectStep("ok"))
    /\ SF_vars(ConnectStep("ok"))
    /\ SF_vars(MarkCommitsQueued)
    /\ \A id \in Ids : SF_vars(ConfirmOf(id))

SpecLive == Init /\ [][NextLive]_vars /\ Fairness

\* the reconciliation command run by hand with any tolerance and in either
\* mode, over detector results whose coordinates differ from run to run, and
\* run a second time on the same result; between the runs publish passes in
\* which every publish is acknowledged and the mark transaction commits
ModelDefaultTolerance == 50
StoreTolerances == {DefaultTolerance, ModelDefaultTolerance}
StoreLons == {10, 11}

StoreCandidates == [transit_id : TransitIds, route_id : RouteIds,
                    transit_lon : StoreLons, transit_lat : TransitLats]

StoreCandidateLists == SeqsUpTo(StoreCandidates, MaxCand)

StoreRun ==
    /\ orch = "idle"
    /\ pc = "idle"
    /\ \E found \in StoreCandidateLists, query_raises \in BOOLEAN,
          clear_existing \in BOOLEAN, tolerance \in StoreTolerances,
          db_fails \in DbFailures :
          StoreCollisions(found, query_raises, clear_existing, tolerance, db_fails)

\* the command is run with --no-clear again, right after such a run that
\* committed, and the detector returns the same rows
StoreRunAgain ==
    /\ orch = "idle"
    /\ pc = "stored"
    /\ ~recon.clear_existing
    /\ recon.committed
    /\ \E tolerance \in StoreTolerances, db_fails \in DbFailures :
          StoreCollisions(recon.calculated_data, FALSE, FALSE, tolerance, db_fails)

StorePassStart ==
    SelectStep("ok")

StoreConnect ==
    ConnectStep("ok")

StoreConfirm ==
    PublishStep("confirmed")

NextStore ==
    \/ StoreRun
    \/ StoreRunAgain
    \/ StoreReturn
    \/ StorePassStart
    \/ StoreConnect
    \/ StoreConfirm
    \/ MarkCommits
    \/ Finish
    \/ PublishReturn

SpecStore == Init /\ [][NextStore]_vars

\* ------------------------------------------------------------ the detector
\* Coordinates are whole steps of 1/StepsPerDegree degree (SRID 4326). The
\* projection to PROJECTED_SRID is taken as the scaling it is locally: a
\* step east is MetresPerLonStep metres, a step north MetresPerLatStep
StepsPerDegree == 20000
MetresPerLonStep == 2
MetresPerLatStep == 5
PROJECTED_SRID == 32633

\* (min_lon, min_lat, max_lon, max_lat) = (14.0, 68.2, 22.0, 70.5) degrees
TROMS_BBOX_COORDS ==
    [min_lon |-> 14 * StepsPerDegree,
     min_lat |-> (682 * StepsPerDegree) \div 10,
     max_lon |-> 22 * StepsPerDegree,
     max_lat |-> (705 * StepsPerDegree) \div 10]

\* a PointField value, and a LineStringField value: one segment along a parallel
Point(lon, lat) == [kind |-> "point", lon |-> lon, lat |-> lat]
LineString(lon_a, lon_b, lat) == [kind |-> "line", lon_a |-> lon_a, lon_b |-> lon_b, lat |-> lat]

\* the SQL functions; each returns NULL (None) for a NULL argument
ST_X(g) == IF g = None THEN None ELSE g.lon
ST_Y(g) == IF g = None THEN None ELSE g.lat

\* the geometry and the box share a point (the border of the box included);
\* NULL for a NULL geometry, which WHERE takes as false
ST_Intersects(g, bbox) ==
    IF g = None THEN FALSE
    ELSE IF g.kind = "point"
    THEN /\ bbox.min_lon <= g.lon /\ g.lon <= bbox.max_lon
         /\ bbox.min_lat <= g.lat /\ g.lat <= bbox.max_lat
    ELSE /\ g.lon_a <= bbox.max_lon /\ bbox.min_lon <= g.lon_b
         /\ bbox.min_lat <= g.lat /\ g.lat <= bbox.max_lat

\* the geometry in metres; NULL for an SRID the model has no projection for
ST_Transform(g, srid) ==
    IF g = None \/ srid # PROJECTED_SRID THEN None
    ELSE IF g.kind = "point"
    THEN [kind |-> "point", x |-> g.lon * MetresPerLonStep, y |-> g.lat * MetresPerLatStep]
    ELSE [kind |-> "line", x_a |-> g.lon_a * MetresPerLonStep,
          x_b |-> g.lon_b * MetresPerLonStep, y |-> g.lat * MetresPerLatStep]

\* the distance of a projected point from a projected segment, squared (the
\* distance itself is not a whole number)
ST_Distance2(p, l) ==
         LET dx == IF p.x < l.x_a THEN l.x_a - p.x
                   ELSE IF p.x > l.x_b THEN p.x - l.x_b ELSE 0
             dy == IF p.y < l.y THEN l.y - p.y ELSE p.y - l.y
         IN dx * dx + dy * dy

\* faulty variant: the bound is exclusive
WithinStrictly(d2, distance_meters) ==
    /\ distance_meters > 0
    /\ d2 < distance_meters * distance_meters

\* faulty variant: the comparison is turned round
WithinReversed(d2, distance_meters) ==
    distance_meters < 0 \/ d2 >= distance_meters * distance_meters

\* ST_Distance(...) <= %s with float(distance_meters): both sides being
\* compared are non-negative, so d <= t is decided as d * d <= t * t
WithinTolerance(d2, distance_meters) ==
    /\ distance_meters >= 0
    /\ d2 <= distance_meters * distance_meters

\* filter 1 of the WHERE clause
TransitFilter(t) ==
    ST_Intersects(t.location, TROMS_BBOX_COORDS) = TRUE

\* faulty variant: filter 2 is left out
RouteFilterNone(r) == TRUE

\* filter 2 of the WHERE clause
RouteFilter(r) ==
    ST_Intersects(r.path, TROMS_BBOX_COORDS) = TRUE

\* the proximity check of the WHERE clause; the distance of a NULL geometry
\* is NULL and so is its comparison, which WHERE takes as false
ProximityCheck(t, r, distance_meters) ==
    LET p == ST_Transform(t.location, PROJECTED_SRID)
        l == ST_Transform(r.path, PROJECTED_SRID)
    IN IF p = None \/ l = None
       THEN FALSE
       ELSE WithinTolerance(ST_Distance2(p, l), distance_meters)

\* the rows the SELECT returns
ProximityQuery(S, R, distance_meters) ==
    {[transit_id |-> p[1].id, route_id |-> p[2].id,
      transit_lon |-> ST_X(p[1].location), transit_lat |-> ST_Y(p[1].location)] :
        p \in {q \in S \X R :
                  /\ q[1].location # None /\ q[2].path # None
                  /\ TransitFilter(q[1])
                  /\ RouteFilter(q[2])
                  /\ ProximityCheck(q[1], q[2], distance_meters)}}

\* the query has no ORDER BY: fetchall() returns the rows in any order
Orderings(rows) ==
    {s \in [1..Cardinality(rows) -> rows] :
        \A i, j \in 1..Cardinality(rows) : i # j => s[i] # s[j]}

\* one call of calculate_collisions_for_storage(distance_meters)
DetectStep(distance_meters, query_raises) ==
    /\ \E found \in Orderings(ProximityQuery(situations, routes, distance_meters)) :
          call' = [fn |-> "detect",
                   distance_meters |-> distance_meters,
                   raised |-> query_raises,
                   result |-> calculate_collisions_for_storage(
                                  IF query_raises THEN <<>> ELSE found, query_raises)]
    /\ UNCHANGED <<ledger, nextId, clock, orch, pc, locals, mqtt_client, report,
                   recon, history, situations, routes, api_metadata, suspended>>

\* the tables the detector is run on: two situations, each with no location,
\* 50 m inside the box's northern border, on it, or a step outside it, and a
\* route that runs 45 m south of the first of these locations, or ends 50 m
\* from it, or runs 40 m inside the border, or runs 45 m outside the border
DetectEast == TROMS_BBOX_COORDS.max_lon - 20
DetectNorth == TROMS_BBOX_COORDS.max_lat

SituationLocations ==
    {None, Point(DetectEast, DetectNorth - 10), Point(DetectEast, DetectNorth),
     Point(DetectEast, DetectNorth + 1)}

RoutePaths ==
    {LineString(DetectEast - 50, DetectEast + 50, DetectNorth - 19),
     LineString(DetectEast - 50, DetectEast - 15, DetectNorth - 18),
     LineString(DetectEast - 50, DetectEast + 50, DetectNorth - 8),
     LineString(DetectEast - 50, DetectEast + 50, DetectNorth + 9)}

DetectTolerances == {40, 45, 50}

\* the situation identifiers of the feed
SituationIds == {"S1", "S2"}
FeedId(id) == IF id = 1 THEN "S1" ELSE "S2"

VtsSituation(id, situation_id, location, severity, filter_used) ==
    [id |-> id, situation_id |-> situation_id, location |-> location,
     severity |-> severity, filter_used |-> filter_used]

BusRoute(id, route_id, path) ==
    [id |-> id, route_id |-> route_id, path |-> path]

InitDetect ==
    /\ Idle
    /\ \E locs \in [TransitIds -> SituationLocations] :
          situations = {VtsSituation(id, FeedId(id), locs[id], None, None) : id \in TransitIds}
    /\ \E paths \in [RouteIds -> RoutePaths] :
          routes = {BusRoute(id, None, paths[id]) : id \in RouteIds}
    /\ api_metadata = None
    /\ call = NoCall

Detect ==
    \E distance_meters \in DetectTolerances, query_raises \in BOOLEAN :
        DetectStep(distance_meters, query_raises)

NextDetect ==
    Detect

SpecDetect == InitDetect /\ [][NextDetect]_vars

\* ------------------------------------------------------------ the topic
\* A string is a sequence of pieces: single characters, and words that have
\* no reserved character in them
Chars == {"a", "+", "#", "/"}
Str(chars) == [kind |-> "str", chars |-> chars]

\* what a nullable CharField or TextField can hold
AttributeValues == {None} \cup {Str(chars) : chars \in SeqsUpTo(Chars, MaxSeg)}

placeholder == <<"_unknown_">>
base_topic == <<"vts", "/", "collisions">>

\* str.replace(old, new)
Replace(chars, old, new) ==
    [i \in 1..Len(chars) |-> IF chars[i] = old THEN new ELSE chars[i]]

\* faulty variant: the level separator is not replaced
ReplaceWildcardsOnly(segment_str) ==
    Replace(Replace(segment_str, "+", "_"), "#", "_")

\* segment_str.replace('+', '_').replace('#', '_').replace('/', '_')
ReplaceReserved(segment_str) ==
    Replace(Replace(Replace(segment_str, "+", "_"), "#", "_"), "/", "_")

\* faulty variant: no placeholder; None is formatted as it is, '' stays ''
sanitize_without_placeholder(segment_value) ==
    IF segment_value = None THEN <<"None">> ELSE ReplaceReserved(segment_value.chars)

\* Command._sanitize_topic_segment: the placeholder for None and '' (not
\* segment_value), else the value with the reserved characters replaced
sanitize_topic_segment(segment_value) ==
    IF segment_value = None \/ segment_value.chars = <<>>
    THEN placeholder
    ELSE LET sanitized == ReplaceReserved(segment_value.chars)
         IN IF sanitized # <<>> THEN sanitized ELSE placeholder

\* collision.transit_information, collision.bus_route
Related(objects, id) ==
    IF \E o \in objects : o.id = id
    THEN CHOOSE o \in objects : o.id = id
    ELSE None

\* the entries of the payload the topic is built from
Payload(collision) ==
    LET transit_info == Related(situations, collision.transit_information_id)
        bus_route == Related(routes, collision.bus_route_id)
    IN [severity |-> IF transit_info # None THEN transit_info.severity ELSE None,
        filter_used |-> IF transit_info # None THEN transit_info.filter_used ELSE None,
        Bus_number |-> IF bus_route # None THEN bus_route.route_id ELSE None]

\* f"{base_topic}/route/{bus_route_id_str}/severity/{severity_str}/filter/{filter_str}"
Topic(bus_route_id_str, severity_str, filter_str) ==
    base_topic \o <<"/", "route", "/">> \o bus_route_id_str
               \o <<"/", "severity", "/">> \o severity_str
               \o <<"/", "filter", "/">> \o filter_str

\* the loop body up to the publish call, for one row of the table
TopicStep(id) ==
    LET payload == Payload(Row(ledger, id))
        bus_route_id_str == sanitize_topic_segment(payload.Bus_number)
        severity_str == sanitize_topic_segment(payload.severity)
        filter_str == sanitize_topic_segment(payload.filter_used)
    IN /\ id \in LedgerIds(ledger)
       /\ call' = [fn |-> "topic",
                   collision_id |-> id,
                   payload |-> payload,
                   segments |-> [Bus_number |-> bus_route_id_str,
                                 severity |-> severity_str,
                                 filter_used |-> filter_str],
                   topic |-> Topic(bus_route_id_str, severity_str, filter_str)]
       /\ UNCHANGED <<ledger, nextId, clock, orch, pc, locals, mqtt_client, report,
                      recon, history, situations, routes, api_metadata, suspended>>

\* a table with one stored collision, of a situation and a route whose
\* severity, category and route identifier are any attribute values
InitTopic ==
    /\ ledger = {NewRow([transit_id |-> 1, route_id |-> 1,
                         transit_lon |-> 10, transit_lat |-> 69],
                        1, DefaultTolerance, 1)}
    /\ nextId = 2
    /\ clock = 2
    /\ orch = "idle"
    /\ pc = "idle"
    /\ collisions_to_publish = <<>>
    /\ idx = 0
    /\ processed_count = 0
    /\ published_count = 0
    /\ publish_failures = 0
    /\ ids_to_mark_published = <<>>
    /\ successfully_marked_ids = <<>>
    /\ db_update_failed_flag = FALSE
    /\ updated_count = 0
    /\ mqtt_client = "none"
    /\ report = NoReport
    /\ recon = NoRecon
    /\ outcomes = <<>>
    /\ acked = {}
    /\ sent = [i \in Ids |-> 0]
    /\ crash_confirmed = {}
    /\ suspended = NoPass
    /\ \E severity \in AttributeValues, filter_used \in AttributeValues :
          situations = {VtsSituation(1, FeedId(1), None, severity, filter_used)}
    /\ \E route_id \in AttributeValues :
          routes = {BusRoute(1, route_id, LineString(DetectEast - 50, DetectEast + 50, DetectNorth - 8))}
    /\ api_metadata = None
    /\ call = NoCall

BuildTopic ==
    \E id \in Ids : TopicStep(id)

NextTopic == BuildTopic

SpecTopic == InitTopic /\ [][NextTopic]_vars

\* ------------------------------------------------------------ the read endpoint
\* faulty variant: the endpoint reads the unpublished rows only
ViewQuerysetUnpublished(l) == {r \in l : ~r.published_to_mqtt}

\* DetectedCollision.objects.all()
ViewQueryset(l) == l

\* Meta.ordering = ['-detection_timestamp', 'transit_information']: newest
\* first, then by situation; rows equal in both come in any order
MetaOrderings(rows) ==
    {s \in Orderings(rows) :
        \A i, j \in 1..Len(s) : i < j =>
           \/ s[i].detection_timestamp > s[j].detection_timestamp
           \/ /\ s[i].detection_timestamp = s[j].detection_timestamp
              /\ s[i].transit_information_id <= s[j].transit_information_id}

\* queryset.values(...): the six fields of a row
Values(r) ==
    [transit_information_id |-> r.transit_information_id,
     bus_route_id |-> r.bus_route_id,
     transit_lon |-> r.transit_lon,
     transit_lat |-> r.transit_lat,
     detection_timestamp |-> r.detection_timestamp,
     tolerance_meters |-> r.tolerance_meters]

\* list(queryset.values(...)): what the endpoint can answer for a table
StoredCollisions(l) ==
    {[i \in 1..Len(rows) |-> Values(rows[i])] : rows \in MetaOrderings(ViewQueryset(l))}

\* get_stored_collisions_view(request): a request at any moment, also while
\* a command runs; it reads the table and writes nothing
StoredCollisionsView ==
    /\ \E collision_data \in StoredCollisions(ledger) :
          call' = [fn |-> "view", stored_collisions |-> collision_data]
    /\ UNCHANGED <<ledger, nextId, clock, orch, pc, locals, mqtt_client, report,
                   recon, history, situations, routes, api_metadata, suspended>>

\* run_cron's runs, with requests to the endpoint in between
NextView ==
    \/ OrchStart
    \/ OrchFetch
    \/ OrchCalc
    \/ StoreReturn
    \/ OrchPublishStart
    \/ Connect
    \/ AckedPublish
    \/ MarkCommits
    \/ Finish
    \/ PublishReturn
    \/ OrchExit
    \/ StoredCollisionsView

SpecView == Init /\ [][NextView]_vars

\* ------------------------------------------------------------ the fetch
\* longest list of situation records in one response
MaxFeed == 2

\* text that holds a time: an HTTP-date (Last-Modified, If-Modified-Since),
\* an ISO 8601 time (publicationTime), or something that is no time
Times == {1, 2}
HttpDate(t) == [kind |-> "str", format |-> "http-date", time |-> t]
IsoTime(t) == [kind |-> "str", format |-> "iso", time |-> t]
NoTime == [kind |-> "str", format |-> "other"]

\* safe_parse_datetime: isoparse, None when the text does not parse
safe_parse_datetime(datetime_str) ==
    IF datetime_str = None THEN None
    ELSE IF datetime_str.format = "iso"
    THEN [kind |-> "datetime", time |-> datetime_str.time]
    ELSE None

\* email.utils.format_datetime(dt, usegmt=True)
format_datetime(dt) == HttpDate(dt.time)

\* a situationRecord of the feed: its id, the point its coordinates give
\* (None without coordinates), and whether handling it raises
FeedRecords ==
    {[situation_id |-> "S1", location |-> None, raises |-> FALSE],
     [situation_id |-> "S1", location |-> Point(DetectEast, DetectNorth - 10), raises |-> FALSE],
     [situation_id |-> "S2", location |-> Point(DetectEast, DetectNorth - 10), raises |-> FALSE],
     [situation_id |-> "S1", location |-> None, raises |-> TRUE]}

\* response.content: not XML, or a publication with its publicationTime
\* (None if there is none) and its situation records
NotXml == [parses |-> FALSE]
FeedBodies ==
    {NotXml} \cup [parses : {TRUE},
                   publication_time : {None, NoTime} \cup {IsoTime(t) : t \in {1}},
                   records : SeqsUpTo(FeedRecords, MaxFeed)]

\* the responses of the server: status, Last-Modified header, content
HttpStatuses == {200, 304, 500}
Responses ==
    [status_code : HttpStatuses,
     last_modified : {None} \cup {HttpDate(t) : t \in Times},
     content : FeedBodies]

\* what the log of a fetch tells of the response: status, Last-Modified,
\* whether the content parsed, and the ids of the situation records that
\* were handled without an exception
Answered(response) ==
    [status_code |-> response.status_code,
     last_modified |-> response.last_modified,
     parses |-> response.content.parses,
     record_ids |-> IF response.content.parses
                    THEN {r.situation_id : r \in {q \in Range(response.content.records) : ~q.raises}}
                    ELSE {}]

\* Response.raise_for_status(): HTTPError for 4xx and 5xx
raise_for_status(status_code) == 400 <= status_code /\ status_code < 600

\* faulty variant: every response that did not raise is processed
ProcessedStatusAny(status_code) == TRUE

\* if response.status_code == 200
ProcessedStatus(status_code) == status_code = 200

\* the primary key a new row gets
NextPk(S) ==
    IF S = {} THEN 1
    ELSE 1 + (CHOOSE n \in {q.id : q \in S} : \A q \in S : q.id <= n)

\* VtsSituation.objects.update_or_create(situation_id=..., defaults={...})
\* inside the try of the loop body: a record whose handling raises is
\* skipped. The feed records of the model have no severity and no xsi:type
UpdateOrCreate(S, record) ==
    IF record.raises THEN S
    ELSE IF \E q \in S : q.situation_id = record.situation_id
    THEN {IF q.situation_id = record.situation_id
          THEN VtsSituation(q.id, q.situation_id, record.location, None, Str(<<"Unknown">>))
          ELSE q : q \in S}
    ELSE S \cup {VtsSituation(NextPk(S), record.situation_id, record.location,
                              None, Str(<<"Unknown">>))}

RECURSIVE ProcessRecords(_, _, _)
ProcessRecords(S, records, i) ==
    IF i > Len(records) THEN S
    ELSE ProcessRecords(UpdateOrCreate(S, records[i]), records, i + 1)

\* process_response after the debug file was written: a parse error
\* returns, else every situationRecord is stored or skipped
process_response(S, content) ==
    IF ~content.parses THEN S ELSE ProcessRecords(S, content.records, 1)

\* update_last_modified_date: the Last-Modified header, else the formatted
\* publicationTime of the content, else nothing to save
LastModifiedToSave(response) ==
    IF response.last_modified # None THEN response.last_modified
    ELSE IF ~response.content.parses THEN None
    ELSE LET parsed_publication_time ==
                 safe_parse_datetime(response.content.publication_time)
         IN IF parsed_publication_time # None
            THEN format_datetime(parsed_publication_time)
            ELSE None

\* ApiMetadata.objects.update_or_create(key='last_modified_date', ...) if
\* there is a date to save; an exception of the database is caught
update_last_modified_date(entry, response, db_fails) ==
    LET last_modified_date_to_save == LastModifiedToSave(response)
    IN IF last_modified_date_to_save # None /\ ~db_fails
       THEN last_modified_date_to_save
       ELSE entry

\* faulty variant: the conditional header is never sent
RequestHeadersNone(last_modified_entry) == [none |-> TRUE]

\* headers of the request: If-Modified-Since if the entry is stored
RequestHeaders(last_modified_entry) ==
    IF last_modified_entry # None
    THEN [If_Modified_Since |-> last_modified_entry]
    ELSE [none |-> TRUE]

\* Command.handle of fetch_vts_situations. response = None: requests.get
\* raised (no connection, timeout); debug_file_fails: debug_response.xml
\* cannot be written, which is outside every try block
FetchStep(response, debug_file_fails, db_fails) ==
    LET headers == RequestHeaders(api_metadata)
        answered == IF response = None THEN None
                    ELSE Answered(response)
        request_failed == IF response = None THEN TRUE
                          ELSE raise_for_status(response.status_code)
    IN /\ IF request_failed
          THEN /\ call' = [fn |-> "fetch", headers |-> headers,
                           response |-> answered, outcome |-> "request_failed"]
               /\ UNCHANGED <<situations, api_metadata>>
          ELSE IF ~ProcessedStatus(response.status_code)
          THEN /\ call' = [fn |-> "fetch", headers |-> headers,
                           response |-> answered, outcome |-> "not_processed"]
               /\ UNCHANGED <<situations, api_metadata>>
          ELSE IF debug_file_fails
          THEN /\ call' = [fn |-> "fetch", headers |-> headers,
                           response |-> answered, outcome |-> "raised"]
               /\ UNCHANGED <<situations, api_metadata>>
          ELSE /\ call' = [fn |-> "fetch", headers |-> headers,
                           response |-> answered, outcome |-> "processed"]
               /\ situations' = process_response(situations, response.content)
               /\ api_metadata' = update_last_modified_date(api_metadata, response,
                                                            db_fails)
       /\ UNCHANGED <<ledger, nextId, clock, orch, pc, locals, mqtt_client, report,
                      recon, history, routes, suspended>>

\* a fetch that got no response
FetchNoResponse ==
    FetchStep(None, FALSE, FALSE)

\* a fetch that got a response; the failures of the environment are taken
\* one at a time
Fetch ==
    \E response \in Responses,
       fails \in {<<FALSE, FALSE>>, <<TRUE, FALSE>>, <<FALSE, TRUE>>} :
        FetchStep(response, fails[1], fails[2])

NextFetch ==
    \/ FetchNoResponse
    \/ Fetch

SpecFetch == Init /\ [][NextFetch]_vars

\* ------------------------------------------------------------ two passes
\* Two processes run publish_new_collisions on the same database (a cron run
\* that overlaps the next one, or a run by hand). One of them takes steps,
\* the other is suspended; the scheduler can change over at any statement
Running ==
    [pc |-> pc,
     collisions_to_publish |-> collisions_to_publish,
     idx |-> idx,
     processed_count |-> processed_count,
     published_count |-> published_count,
     publish_failures |-> publish_failures,
     ids_to_mark_published |-> ids_to_mark_published,
     successfully_marked_ids |-> successfully_marked_ids,
     db_update_failed_flag |-> db_update_failed_flag,
     updated_count |-> updated_count,
     outcomes |-> outcomes,
     mqtt_client |-> mqtt_client,
     report |-> report]

\* the process that was running is suspended, the other one goes on
Switch ==
    /\ pc \in {"idle", "connect", "loop", "mark", "cleanup", "done"}
    /\ suspended # Running
    /\ suspended' = Running
    /\ pc' = suspended.pc
    /\ collisions_to_publish' = suspended.collisions_to_publish
    /\ idx' = suspended.idx
    /\ processed_count' = suspended.processed_count
    /\ published_count' = suspended.published_count
    /\ publish_failures' = suspended.publish_failures
    /\ ids_to_mark_published' = suspended.ids_to_mark_published
    /\ successfully_marked_ids' = suspended.successfully_marked_ids
    /\ db_update_failed_flag' = suspended.db_update_failed_flag
    /\ updated_count' = suspended.updated_count
    /\ outcomes' = suspended.outcomes
    /\ mqtt_client' = suspended.mqtt_client
    /\ report' = suspended.report
    /\ UNCHANGED <<ledger, nextId, clock, orch, recon, history,
                   situations, routes, api_metadata, call>>

\* the table is filled once, by a --no-clear reconciliation that commits,
\* before either pass starts
OverlapStore ==
    /\ orch = "idle"
    /\ pc = "idle"
    /\ suspended = NoPass
    /\ ledger = {}
    /\ \E found \in CandidateLists :
          StoreCollisions(found, FALSE, FALSE, DefaultTolerance, "none")

OverlapStart ==
    SelectStep("ok")

OverlapConnect ==
    ConnectStep("ok")

OverlapPublish ==
    \E outcome \in {"confirmed", "timeout"} : PublishStep(outcome)

NextOverlap ==
    \/ OverlapStore
    \/ StoreReturn
    \/ OverlapStart
    \/ OverlapConnect
    \/ OverlapPublish
    \/ Mark
    \/ Finish
    \/ PublishReturn
    \/ Switch

SpecOverlap == Init /\ [][NextOverlap]_vars

\* ------------------------------------------------------------ properties
\* the rows of the running pass whose iteration ended in the given outcomes
AttemptedWith(os) ==
    {collisions_to_publish[i] : i \in {j \in 1..Len(outcomes) : outcomes[j] \in os}}

\* the publish loop of the running pass is over
LoopOver ==
    \/ pc \in {"mark", "cleanup"}
    \/ pc = "done" /\ report.kind = "summary"

\* every selection a pass starting now can make contains these ids
SelectedNext(ids) ==
    \A selection \in Selections(ledger) : ids \subseteq Range(selection)

\* C1: a row is marked published only if the broker acknowledged a publish
\* of it in some pass, and a row whose iteration timed out, raised or failed
\* to serialize in the running pass is still unpublished, also after that
\* pass's mark step.
C1_PublishedOnlyIfAcked ==
    /\ PublishedIds(ledger) \subseteq acked
    /\ AttemptedWith(Outcomes \ {"confirmed"}) \subseteq UnpublishedIds(ledger)

\* a pass marked one row and left a timed-out, a raising and an unserializable one
C1_Witness ==
    /\ pc = "cleanup"
    /\ updated_count = 1
    /\ Len(outcomes) = 2
    /\ outcomes[1] \in {"timeout", "publish_error", "serialize_error"}
    /\ outcomes[2] = "confirmed"
    /\ collisions_to_publish[2] \in PublishedIds(ledger)

\* C2: when the mark transaction failed, every row confirmed in the pass is
\* still unpublished, the pass counts and reports 0 marked rows, and a pass
\* starting from this table selects all of them again.
C2_MarkFailureMarksNone ==
    db_update_failed_flag =>
        /\ Range(ids_to_mark_published) \subseteq UnpublishedIds(ledger)
        /\ MarkedCount = 0
        /\ pc = "done" => report.kind = "summary" /\ report.marked = 0
        /\ SelectedNext(Range(ids_to_mark_published))

C2_Witness ==
    /\ pc = "done"
    /\ db_update_failed_flag
    /\ Len(ids_to_mark_published) = 2

\* C3: in every step, a row that is in the table before and after the step
\* and whose flag differs went from unpublished to published, the step is the
\* mark step of a publish pass, and the row's iteration in that pass ended
\* confirmed.
C3_FlagOnlyRisesByConfirmedMark ==
    [][\A id \in LedgerIds(ledger) \cap LedgerIds(ledger') :
          Row(ledger, id).published_to_mqtt # Row(ledger', id).published_to_mqtt =>
             /\ ~Row(ledger, id).published_to_mqtt
             /\ Row(ledger', id).published_to_mqtt
             /\ pc = "mark" /\ pc' = "cleanup"
             /\ id \in AttemptedWith({"confirmed"})]_vars

\* a mark step flipped a row while a row published by an earlier pass stayed published
C3_Witness ==
    /\ pc = "cleanup"
    /\ updated_count = 1
    /\ \E r \in ledger : r.published_to_mqtt /\ r.id \notin Range(collisions_to_publish)
    /\ nextId > 2

\* C6: a row confirmed in a pass that was killed before its mark step is
\* still in the table; while it is unpublished every pass starting now
\* selects it, and it is published only after a second publish of it was
\* handed to the transport and acknowledged. A mark transaction that
\* commits publishes every such row it had queued.
C6_CrashBeforeMarkRepublishes ==
    /\ [](\A id \in crash_confirmed :
            /\ id \in LedgerIds(ledger)
            /\ id \in acked
            /\ id \in UnpublishedIds(ledger) => SelectedNext({id})
            /\ id \in PublishedIds(ledger) => sent[id] >= 2)
    /\ [][(pc = "mark" /\ pc' = "cleanup" /\ ~db_update_failed_flag') =>
            (crash_confirmed \cap Range(ids_to_mark_published))
                \subseteq PublishedIds(ledger')]_vars

\* a row confirmed before a kill was published again and is now marked
C6_Witness ==
    \E id \in crash_confirmed :
        /\ id \in PublishedIds(ledger)
        /\ sent[id] = 2
        /\ pc = "cleanup"
        /\ id \in Range(ids_to_mark_published)

\* C7: a row whose acknowledgment timed out in the running pass is not
\* queued for marking, is unpublished, and is selected by a pass starting
\* from this table; a pass over a single such row reports found = 1,
\* confirmed = 0, marked = 0.
C7_TimeoutLeavesUnpublished ==
    /\ AttemptedWith({"timeout"}) \cap Range(ids_to_mark_published) = {}
    /\ AttemptedWith({"timeout"}) \subseteq UnpublishedIds(ledger)
    /\ SelectedNext(AttemptedWith({"timeout"}))
    /\ (pc = "done" /\ report.kind = "summary" /\ outcomes = <<"timeout">>) =>
          /\ report.found = 1
          /\ report.confirmed = 0
          /\ report.marked = 0

C7_Witness ==
    /\ pc = "done"
    /\ report.kind = "summary"
    /\ outcomes = <<"timeout">>
    /\ Cardinality(ledger) = 1
    /\ UnpublishedIds(ledger) = Range(collisions_to_publish)

\* C8: when the publish loop is over, every row of the batch was attempted,
\* each failed iteration was counted once, and after a mark step that did
\* not fail every confirmed row of the batch is published, whatever failed
\* before it in the batch.
C8_FailureDoesNotStopBatch ==
    LoopOver =>
        /\ Len(outcomes) = Len(collisions_to_publish)
        /\ publish_failures =
              Cardinality({i \in 1..Len(outcomes) : outcomes[i] # "confirmed"})
        /\ (pc \in {"cleanup", "done"} /\ ~db_update_failed_flag) =>
              AttemptedWith({"confirmed"}) \subseteq PublishedIds(ledger)

\* the first row of a batch failed, the second was confirmed and marked
C8_Witness ==
    /\ pc = "done"
    /\ report.kind = "summary"
    /\ Len(outcomes) = 2
    /\ outcomes[1] \in {"serialize_error", "attr_error", "publish_error", "ack_error"}
    /\ outcomes[2] = "confirmed"
    /\ collisions_to_publish[2] \in PublishedIds(ledger)
    /\ report.failed = 1

\* C9: every summary a pass writes has marked <= confirmed <= found.
C9_ReportCountsOrdered ==
    report.kind = "summary" =>
        /\ report.marked <= report.confirmed
        /\ report.confirmed <= report.found

C9_Witness ==
    /\ report.kind = "summary"
    /\ report.marked < report.confirmed
    /\ report.confirmed < report.found

\* C10: after a clearing reconciliation that committed, the pairs in the
\* table are exactly the pairs of the detector result, one row each, every
\* row is unpublished, and no row is older than the pass.
C10_RebuildEqualsCandidates ==
    (pc = "stored" /\ recon.clear_existing /\ recon.committed) =>
        /\ LedgerPairs(ledger) =
              {<<d.transit_id, d.route_id>> : d \in Range(recon.calculated_data)}
        /\ Cardinality(ledger) = Cardinality(LedgerPairs(ledger))
        /\ \A r \in ledger : ~r.published_to_mqtt /\ r.id >= recon.first_id

\* a clearing pass replaced a non-empty table by the rows of a non-empty result
C10_Witness ==
    /\ pc = "stored"
    /\ recon.clear_existing
    /\ recon.committed
    /\ recon.deleted_count > 0
    /\ Cardinality(ledger) = 1
    /\ Len(recon.calculated_data) = 2

\* C4: under SpecOrch a pair has one row for good (no row is ever deleted,
\* no pair has two rows), no row is handed to the transport twice, a
\* published row was handed to it exactly once, a row that is unpublished
\* between passes was never handed to it, and a pass without failures has
\* handed each row it selected to the transport exactly once.
C4_EachPairPublishedOnce ==
    /\ LedgerIds(ledger) = 1..(nextId - 1)
    /\ Cardinality(LedgerPairs(ledger)) = Cardinality(ledger)
    /\ \A r \in ledger :
          /\ sent[r.id] <= 1
          /\ r.published_to_mqtt => sent[r.id] = 1
          /\ (pc = "idle" /\ ~r.published_to_mqtt) => sent[r.id] = 0
    /\ (pc = "done" /\ report.kind = "summary" /\ report.failed = 0) =>
          \A id \in Range(collisions_to_publish) :
              sent[id] = 1 /\ id \in PublishedIds(ledger)

\* a later run finds a pair again whose row is published, adds a row for a
\* new pair only, and the pass publishes just that row
C4_Witness ==
    /\ orch = "publish"
    /\ pc = "done"
    /\ report.kind = "summary"
    /\ report.found = 1
    /\ Cardinality(ledger) = 2
    /\ \A r \in ledger : r.published_to_mqtt /\ sent[r.id] = 1

\* C5: under SpecLive every row that is unpublished is eventually marked
\* published, unless a clearing reconciliation deletes it first.
C5_UnpublishedEventuallyMarked ==
    \A id \in Ids :
        (id \in UnpublishedIds(ledger)) ~>
            (id \in PublishedIds(ledger) \/ id \notin LedgerIds(ledger))

\* a row was marked after an earlier pass had published it without a confirmation
C5_Witness ==
    \E id \in PublishedIds(ledger) : sent[id] = 2 /\ id \notin crash_confirmed

\* the step is a second --no-clear reconciliation run on the result of the
\* one that just committed
SecondAppend ==
    /\ pc = "stored" /\ pc' = "stored"
    /\ ~recon.clear_existing /\ recon.committed
    /\ recon'.calculated_data = recon.calculated_data

\* C11: a --no-clear reconciliation run a second time on the same detector
\* result leaves the table as the first run left it, and when it commits it
\* reports 0 rows created and every row of the result skipped.
C11_AppendTwiceIsIdempotent ==
    [][SecondAppend =>
          /\ ledger' = ledger
          /\ LedgerPairs(ledger') = LedgerPairs(ledger)
          /\ recon'.created_count = 0
          /\ recon'.committed => recon'.skipped_count = Len(recon'.calculated_data)]_vars

\* the second run of a result of two pairs has committed, after a first run
\* that created rows
C11_Witness ==
    /\ pc = "stored"
    /\ ~recon.clear_existing /\ recon.committed
    /\ recon.created_count = 0
    /\ recon.skipped_count = 2
    /\ recon.first_id = nextId
    /\ Cardinality(ledger) = 2
    /\ \A r \in ledger : ~r.published_to_mqtt

\* C12: a --no-clear reconciliation leaves every row of the table in the
\* table with all its fields, whether or not its pair is in the result and
\* whatever coordinates and tolerance the result has for it; every row it
\* adds has a pair that no row had before.
C12_AppendKeepsExistingRows ==
    [][(pc' = "stored" /\ recon' # recon /\ ~recon'.clear_existing) =>
          /\ ledger \subseteq ledger'
          /\ \A r \in ledger' \ ledger : Pair(r) \notin LedgerPairs(ledger)]_vars

\* a --no-clear run added a row next to a published row whose pair was in
\* the result with other coordinates and another tolerance
C12_Witness ==
    /\ pc = "stored"
    /\ ~recon.clear_existing /\ recon.committed
    /\ recon.created_count = 1
    /\ \E r \in ledger :
          /\ r.published_to_mqtt
          /\ r.id < recon.first_id
          /\ \E d \in Range(recon.calculated_data) :
                /\ <<d.transit_id, d.route_id>> = Pair(r)
                /\ d.transit_lon # r.transit_lon
          /\ \E q \in ledger : q.id >= recon.first_id
                                /\ q.tolerance_meters # r.tolerance_meters

\* C13: in every reachable state no two rows of the table have the same
\* (transit_information, bus_route) pair.
C13_OneRowPerPair ==
    /\ UniqueTogether(ledger)
    /\ Cardinality(LedgerPairs(ledger)) = Cardinality(ledger)

\* a result that names one pair twice was stored as one row, next to an older row
C13_Witness ==
    /\ pc = "stored"
    /\ recon.committed
    /\ Len(recon.calculated_data) = 2
    /\ recon.calculated_data[1] = recon.calculated_data[2]
    /\ recon.created_count = 1
    /\ recon.skipped_count = 1
    /\ Cardinality(ledger) = 2

\* C14: a reconciliation whose transaction raised leaves the table exactly
\* as it was, in clearing mode too.
C14_FailedReconciliationChangesNothing ==
    [][(pc' = "stored" /\ recon' # recon /\ ~recon'.committed) =>
          /\ ledger' = ledger
          /\ nextId' = nextId]_vars

\* a clearing run over a non-empty table failed in bulk_create, after the delete
C14_Witness ==
    /\ pc = "stored"
    /\ recon.clear_existing
    /\ ~recon.committed
    /\ recon.deleted_count > 0
    /\ Cardinality(ledger) = recon.deleted_count
    /\ \E r \in ledger : r.published_to_mqtt

\* the step is the return of the calculate command to run_cron after the
\* distance query raised or the reconciliation transaction was rolled back
CalcStageFailedReturns ==
    /\ orch = "calc"
    /\ pc = "stored" /\ pc' = "idle"
    /\ recon.query_failed \/ ~recon.committed

\* C15: when the distance query raised or the reconciliation transaction
\* failed in a run_cron invocation, run_cron ends the sequence: it is aborted
\* and does not go on to the publish command.
C15_DetectionFailureAbortsRun ==
    [][CalcStageFailedReturns => orch' = "aborted"]_vars

\* C16: a reconciliation whose distance query raised leaves the table as it
\* was, with and without --no-clear.
C16_QueryFailureChangesNothing ==
    [][(pc' = "stored" /\ recon' # recon /\ recon'.query_failed) =>
          ledger' = ledger]_vars

\* the publish pass whose result is written in rep failed in some way: it
\* returned before the loop for another reason than an empty selection, some
\* row was not confirmed, or its summary is not the success line
PublishDegraded(rep) ==
    \/ rep.kind = "early" /\ rep.outcome # "nothing_found"
    \/ rep.kind = "summary" /\ (rep.failed > 0 \/ rep.outcome # "success")

\* C17: when the publish command of a run_cron invocation ends after a
\* failure (no connection, rows not confirmed, mark transaction failed, or
\* an exception leaving it), run_cron still writes its final line; while
\* the publish command runs no row leaves the table, and every row it
\* marks published was acknowledged by the broker.
C17_PublishFailureDoesNotAbort ==
    /\ [][(orch = "publish" /\ pc = "done" /\ pc' = "idle" /\ PublishDegraded(report)) =>
             (orch' = "finished" /\ ledger' = ledger)]_vars
    /\ [][orch = "publish" =>
             /\ LedgerIds(ledger') = LedgerIds(ledger)
             /\ PublishedIds(ledger') \ PublishedIds(ledger) \subseteq acked']_vars

\* the publish stage of a run found two rows, one was confirmed, and the
\* mark transaction failed: both rows are in the table, unpublished
C17_Witness ==
    /\ orch = "publish"
    /\ pc = "done"
    /\ report.kind = "summary"
    /\ report.outcome = "db_update_failed"
    /\ report.found = 2
    /\ report.confirmed = 1
    /\ Cardinality(UnpublishedIds(ledger)) = 2

\* C18: run_cron ends with its final success line and a normal return only
\* when its publish stage did not fail: a run whose publish stage failed
\* ends in another outcome than a fully successful run.
C18_DegradedRunEndsDifferently ==
    [][(orch = "publish" /\ orch' = "finished") => ~PublishDegraded(report)]_vars

\* the pass returned at a prerequisite check: no paho-mqtt, or no broker host
Unconfigured(rep) ==
    rep.kind = "early" /\ rep.outcome \in {"no_mqtt_lib", "no_host"}

\* C19: a publish pass started without paho-mqtt or without a broker host
\* is over at once: it has no client, has selected and published nothing,
\* and neither its start nor its return changes the table or hands
\* anything to the transport.
C19_UnconfiguredPassDoesNothing ==
    /\ [](Unconfigured(report) =>
             /\ pc = "done"
             /\ mqtt_client = "none"
             /\ collisions_to_publish = <<>>
             /\ outcomes = <<>>)
    /\ [][(Unconfigured(report') \/ Unconfigured(report)) =>
             /\ ledger' = ledger
             /\ sent' = sent
             /\ acked' = acked]_vars

\* a pass without a broker host returned while a row was waiting to be published
C19_Witness ==
    /\ pc = "done"
    /\ report.kind = "early"
    /\ report.outcome = "no_host"
    /\ UnpublishedIds(ledger) # {}
    /\ mqtt_client = "none"

\* C20: when a publish pass that created a client is over, the client was
\* disconnected and its network loop stopped.
C20_ClientClosedOnEveryExit ==
    (pc = "done" /\ mqtt_client # "none") => mqtt_client = "closed"

\* C21: in a publish pass the rows are attempted in the order of their
\* detection timestamps: of two rows attempted in the pass, the one with
\* the earlier timestamp was attempted, and so handed to the transport, first.
C21_PublishedOldestFirst ==
    \A i, j \in 1..Len(outcomes) :
        Row(ledger, collisions_to_publish[i]).detection_timestamp
            < Row(ledger, collisions_to_publish[j]).detection_timestamp
        => i < j

\* both rows of a pass were handed to the transport, the older one first
C21_Witness ==
    /\ Len(outcomes) = 2
    /\ outcomes[1] \in Submitted
    /\ outcomes[2] \in Submitted
    /\ Row(ledger, collisions_to_publish[1]).detection_timestamp
          < Row(ledger, collisions_to_publish[2]).detection_timestamp

\* the pass is over, every row it selected was acknowledged and its mark
\* transaction committed
AllAckedAndMarked ==
    /\ pc = "done"
    /\ report.kind = "summary"
    /\ \A i \in 1..Len(outcomes) : outcomes[i] = "confirmed"
    /\ ~db_update_failed_flag

\* C22: a pass in which every selected row was acknowledged and whose mark
\* transaction committed reports found = confirmed = marked and failed = 0,
\* and every row it selected is published.
C22_AllAckedAllMarked ==
    AllAckedAndMarked =>
        /\ report.found = Len(collisions_to_publish)
        /\ report.confirmed = report.found
        /\ report.marked = report.found
        /\ report.failed = 0
        /\ Range(collisions_to_publish) \subseteq PublishedIds(ledger)
        /\ report.outcome = "success"

\* a pass over the one unpublished row of the table: found = 1,
\* confirmed = 1, marked = 1, and the row is published
C22_Witness ==
    /\ AllAckedAndMarked
    /\ report.found = 1
    /\ report.confirmed = 1
    /\ report.marked = 1
    /\ collisions_to_publish[1] \in PublishedIds(ledger)

\* the pairs of a detector result
ResultPairs(result) ==
    {<<d.transit_id, d.route_id>> : d \in Range(result)}

\* the location lies in the area of interest
PointInArea(g) ==
    /\ g # None
    /\ TROMS_BBOX_COORDS.min_lon <= g.lon /\ g.lon <= TROMS_BBOX_COORDS.max_lon
    /\ TROMS_BBOX_COORDS.min_lat <= g.lat /\ g.lat <= TROMS_BBOX_COORDS.max_lat

\* some point of the path lies in the area of interest
PathInArea(g) ==
    /\ g # None
    /\ g.lon_a <= TROMS_BBOX_COORDS.max_lon /\ TROMS_BBOX_COORDS.min_lon <= g.lon_b
    /\ TROMS_BBOX_COORDS.min_lat <= g.lat /\ g.lat <= TROMS_BBOX_COORDS.max_lat

\* the projected distance between the location and the path, squared
ProjectedDistance2(t, r) ==
    ST_Distance2(ST_Transform(t.location, PROJECTED_SRID),
                 ST_Transform(r.path, PROJECTED_SRID))

\* C23: a detector call that did not fail returns the pair of a situation
\* and a route that are both in the area of interest exactly when their
\* projected distance is at most the tolerance; a distance equal to the
\* tolerance is returned (distances and tolerances compared by their squares).
C23_EmittedIffWithinTolerance ==
    (call.fn = "detect" /\ ~call.raised) =>
        \A t \in situations, r \in routes :
            (PointInArea(t.location) /\ PathInArea(r.path)) =>
                (<<t.id, r.id>> \in ResultPairs(call.result)
                    <=> ProjectedDistance2(t, r)
                            <= call.distance_meters * call.distance_meters)

\* the tolerance 50 returned a pair at exactly 50 m
C23_Witness ==
    /\ call.fn = "detect"
    /\ ~call.raised
    /\ call.distance_meters = 50
    /\ \E t \in situations, r \in routes :
          /\ PointInArea(t.location)
          /\ ProjectedDistance2(t, r) = 50 * 50
          /\ <<t.id, r.id>> \in ResultPairs(call.result)

\* C24: of two detector calls on the same tables that did not fail, the one
\* with the larger (or equal) tolerance returns every pair the other returns.
C24_MonotoneInTolerance ==
    [][(/\ call.fn = "detect" /\ ~call.raised
        /\ call'.fn = "detect" /\ ~call'.raised
        /\ situations' = situations /\ routes' = routes
        /\ call.distance_meters <= call'.distance_meters)
       => ResultPairs(call.result) \subseteq ResultPairs(call'.result)]_vars

\* the tolerance 50 returned two pairs of which the tolerance 45 returns one
\* and the tolerance 40 none
C24_Witness ==
    /\ call.fn = "detect"
    /\ ~call.raised
    /\ call.distance_meters = 50
    /\ Len(call.result) = 1
    /\ ProximityQuery(situations, routes, 45) = Range(call.result)
    /\ ProximityQuery(situations, routes, 40) = {}
    /\ \E t \in situations, r \in routes :
          PointInArea(t.location) /\ ProjectedDistance2(t, r) = 45 * 45

\* C25: every pair a detector call returns is of a situation whose location
\* is not null and lies in the area of interest and of a route whose path is
\* not null and meets the area of interest, whatever the tolerance.
C25_EmittedOnlyInsideArea ==
    call.fn = "detect" =>
        \A d \in Range(call.result) :
            \E t \in situations, r \in routes :
                /\ t.id = d.transit_id
                /\ r.id = d.route_id
                /\ PointInArea(t.location)
                /\ PathInArea(r.path)

\* a call returned the pair of one situation while the other situation,
\* outside the area or without location, is in no pair
C25_Witness ==
    /\ call.fn = "detect"
    /\ Len(call.result) = 1
    /\ \E t \in situations :
          /\ t.id \notin {d.transit_id : d \in Range(call.result)}
          /\ ~PointInArea(t.location)
          /\ t.location # None
          /\ \E r \in routes : ProjectedDistance2(t, r) <= 50 * 50

\* the characters MQTT reserves in a topic level
Reserved == {"/", "+", "#"}

\* C26: every segment the sanitizer returned is non-empty and has none of
\* '/', '+', '#' in it; for None and for the empty string it is the
\* placeholder '_unknown_', for any other value it is the value with each
\* reserved character replaced by '_' and every other character kept.
C26_SegmentIsOneCleanLevel ==
    call.fn = "topic" =>
        \A k \in {"Bus_number", "severity", "filter_used"} :
            LET value == call.payload[k]
                segment == call.segments[k]
            IN /\ segment # <<>>
               /\ \A i \in 1..Len(segment) : segment[i] \notin Reserved
               /\ (value = None \/ value = Str(<<>>)) => segment = <<"_unknown_">>
               /\ (value # None /\ value # Str(<<>>)) =>
                     /\ Len(segment) = Len(value.chars)
                     /\ \A i \in 1..Len(segment) :
                           segment[i] = IF value.chars[i] \in Reserved
                                        THEN "_" ELSE value.chars[i]

\* a missing route identifier gave the placeholder and a severity made of a
\* separator and a wildcard gave two underscores
C26_Witness ==
    /\ call.fn = "topic"
    /\ call.payload.Bus_number = None
    /\ call.segments.Bus_number = <<"_unknown_">>
    /\ call.payload.severity = Str(<<"/", "#">>)
    /\ call.segments.severity = <<"_", "_">>
    /\ call.payload.filter_used = Str(<<"a", "+">>)
    /\ call.segments.filter_used = <<"a", "_">>

\* the levels of a topic: the pieces between the separators
RECURSIVE SplitLevels(_, _, _, _)
SplitLevels(topic, i, level, levels) ==
    IF i > Len(topic) THEN Append(levels, level)
    ELSE IF topic[i] = "/"
    THEN SplitLevels(topic, i + 1, <<>>, Append(levels, level))
    ELSE SplitLevels(topic, i + 1, Append(level, topic[i]), levels)

Levels(topic) == SplitLevels(topic, 1, <<>>, <<>>)

\* C27: for every stored collision the topic is built, and it is the levels
\* of the base topic followed by exactly six levels: route, a non-empty
\* level, severity, a non-empty level, filter, a non-empty level; no level
\* has a wildcard in it, so the publish call does not reject the topic.
C27_TopicHasFixedShape ==
    call.fn = "topic" =>
        LET levels == Levels(call.topic)
            n == Len(Levels(base_topic))
        IN /\ Len(levels) = n + 6
           /\ \A i \in 1..n : levels[i] = Levels(base_topic)[i]
           /\ levels[n + 1] = <<"route">>
           /\ levels[n + 3] = <<"severity">>
           /\ levels[n + 5] = <<"filter">>
           /\ \A i \in {n + 2, n + 4, n + 6} : levels[i] # <<>>
           /\ \A i \in 1..Len(call.topic) : call.topic[i] \notin {"+", "#"}

\* the topic of a collision without route identifier, with an empty
\* severity and with a category that is one separator
C27_Witness ==
    /\ call.fn = "topic"
    /\ call.payload.Bus_number = None
    /\ call.payload.severity = Str(<<>>)
    /\ call.payload.filter_used = Str(<<"/">>)
    /\ Levels(call.topic) = <<<<"vts">>, <<"collisions">>, <<"route">>, <<"_unknown_">>,
                              <<"severity">>, <<"_unknown_">>, <<"filter">>, <<"_">>>>

\* the pass confirmed rows and its mark transaction failed
MarkFailedPass ==
    /\ pc = "done"
    /\ published_count > 0
    /\ db_update_failed_flag

\* the pass found rows and confirmed none of them
NoneConfirmedPass ==
    /\ pc = "done"
    /\ processed_count > 0
    /\ published_count = 0

\* the pass has no row to send
NothingToSendPass ==
    /\ pc = "done"
    /\ processed_count = 0

\* C28: a pass that confirmed rows and whose mark transaction failed ends
\* with the database-failure summary; a pass that found rows and confirmed
\* none ends with the nothing-published note or with the connection
\* failure; a pass with nothing to send ends before the summary. The three
\* ends are different from each other.
C28_MarkFailureReportedApart ==
    /\ MarkFailedPass =>
          /\ report.kind = "summary"
          /\ report.outcome = "db_update_failed"
    /\ NoneConfirmedPass =>
          report.outcome \in {"none_published", "connect_failed"}
    /\ NothingToSendPass =>
          /\ report.kind = "early"
          /\ report.outcome \notin {"db_update_failed", "none_published",
                                    "connect_failed"}

\* a pass over two rows: one confirmed, one not, and the update of the
\* confirmed one failed
C28_Witness ==
    /\ MarkFailedPass
    /\ report.found = 2
    /\ report.confirmed = 1
    /\ report.failed = 1
    /\ report.marked = 0
    /\ report.outcome = "db_update_failed"

\* the keys of the rows of a response
ResponsePairs(response) ==
    {<<d.transit_information_id, d.bus_route_id>> : d \in Range(response)}

C30_Non200ChangesNothing ==
    [][(/\ call'.fn = "fetch"
        /\ call'.response # None
        /\ call'.response.status_code # 200)
       => /\ situations' = situations
          /\ api_metadata' = api_metadata]_vars

\* a 304 answer to a request that sent If-Modified-Since, with situations
\* stored by an earlier fetch
C30_Witness ==
    /\ call.fn = "fetch"
    /\ call.response # None
    /\ call.response.status_code = 304
    /\ call.headers = [If_Modified_Since |-> HttpDate(1)]
    /\ api_metadata = HttpDate(1)
    /\ situations # {}

\* C31: the request of a fetch carries If-Modified-Since iff a last-modified
\* entry was stored when the fetch started, and then the header is the
\* stored value; a fetch without stored entry that got a 200 response and
\* ran to its end has every situation record of the response in the table.
C31_ConditionalHeaderIffMarker ==
    [][call'.fn = "fetch" =>
          /\ ("If_Modified_Since" \in DOMAIN call'.headers) <=> (api_metadata # None)
          /\ api_metadata # None => call'.headers.If_Modified_Since = api_metadata
          /\ (api_metadata = None /\ call'.outcome = "processed") =>
                \A situation_id \in call'.response.record_ids :
                   \E q \in situations' : q.situation_id = situation_id]_vars

\* a fetch that sent the stored date as If-Modified-Since, after a first
\* fetch without header stored a situation and the date
C31_Witness ==
    /\ call.fn = "fetch"
    /\ call.headers = [If_Modified_Since |-> HttpDate(2)]
    /\ \E q \in situations : q.situation_id = "S2"

\* C39: the stored last-modified entry changes only in a fetch that got a 200
\* response whose content parsed; a fetch whose 200 response does not parse
\* leaves the entry as it was.
C39_MarkerOnlyAfterParsedFeed ==
    [][api_metadata' # api_metadata =>
          /\ call'.fn = "fetch"
          /\ call'.response # None
          /\ call'.response.status_code = 200
          /\ call'.response.parses]_vars

\* the stage changes of one run of run_cron
StageOrder ==
    {<<"idle", "fetch">>, <<"fetch", "calc">>, <<"calc", "publish">>,
     <<"publish", "finished">>, <<"fetch", "aborted">>, <<"calc", "aborted">>,
     <<"finished", "idle">>, <<"aborted", "idle">>}

\* C32: a run of run_cron goes through fetch, calculate, publish in this
\* order, each at most once; a reconciliation starts only in the calculate
\* stage, i.e. after the fetch returned, and is run without clearing; a
\* publish pass starts only in the publish stage, i.e. after the
\* reconciliation returned; no step of the run deletes a stored row.
C32_StagesInOrderAppendOnly ==
    [][/\ orch' # orch => <<orch, orch'>> \in StageOrder
       /\ (pc = "idle" /\ pc' = "stored") =>
             /\ orch = "calc"
             /\ ~recon'.clear_existing
             /\ ledger \subseteq ledger'
       /\ (pc = "idle" /\ pc' \in {"connect", "done"}) => orch = "publish"
       /\ LedgerIds(ledger) \subseteq LedgerIds(ledger')]_vars

\* the reconciliation of a second run has returned: the row the first run
\* published is still stored, next to a new one
C32_Witness ==
    /\ orch = "publish"
    /\ pc = "idle"
    /\ PublishedIds(ledger) # {}
    /\ UnpublishedIds(ledger) # {}

\* the rows the running pass has confirmed so far
ConfirmedInPass ==
    {collisions_to_publish[i] : i \in {j \in 1..Len(outcomes) : outcomes[j] = "confirmed"}}

PassPositions == {"connect", "loop", "mark", "cleanup", "done"}

\* C33: no step of a pass in its publish loop changes a row; a step of a
\* pass changes the table only in the mark block, after every selected row
\* was attempted, and then in one step it sets the flag of exactly the rows
\* that this pass confirmed and that are still unpublished, and changes no
\* other row. Checked with a second pass running on the same table.
C33_FlagsChangeOnlyInMarkStep ==
    [][(suspended' = suspended /\ pc \in PassPositions) =>
          /\ pc = "loop" => ledger' = ledger
          /\ ledger' # ledger =>
                /\ pc = "mark"
                /\ Len(outcomes) = Len(collisions_to_publish)
                /\ ledger' = {IF r.id \in ConfirmedInPass /\ ~r.published_to_mqtt
                              THEN [r EXCEPT !.published_to_mqtt = TRUE]
                              ELSE r : r \in ledger}]_vars

\* a pass has marked the one row it confirmed and left the row that timed
\* out, while the other pass is in its loop
C33_Witness ==
    /\ pc = "cleanup"
    /\ outcomes = <<"confirmed", "timeout">>
    /\ PublishedIds(ledger) = {collisions_to_publish[1]}
    /\ UnpublishedIds(ledger) = {collisions_to_publish[2]}
    /\ suspended.pc = "loop"

\* the rows whose flag a step changed from false to true
Flipped(before, after) ==
    {r.id : r \in {q \in before : /\ ~q.published_to_mqtt
                                  /\ \E a \in after : a.id = q.id /\ a.published_to_mqtt}}

\* C35: the marked count of a pass is the number of rows whose flag its mark
\* transaction changed from false to true, also when another pass on the
\* same table marked some of the rows first; the summary reports this count.
C35_MarkedCountIsRowsFlipped ==
    [][suspended' = suspended =>
          /\ (pc = "mark" /\ pc' = "cleanup") =>
                Len(successfully_marked_ids') = Cardinality(Flipped(ledger, ledger'))
          /\ (pc = "cleanup" /\ pc' = "done") =>
                report'.marked = Len(successfully_marked_ids)]_vars

\* the places of a pair in a detector result, and the pairs that are in it
\* more than once
Occurrences(found, p) ==
    {i \in 1..Len(found) : <<found[i].transit_id, found[i].route_id>> = p}

Repeated(found) ==
    {p \in ResultPairs(found) : Cardinality(Occurrences(found, p)) >= 2}

FirstOccurrence(found, p) ==
    found[CHOOSE i \in Occurrences(found, p) : \A j \in Occurrences(found, p) : i <= j]

\* the rows of a pair that a reconciliation inserted
InsertedFor(l, first_id, p) ==
    {r \in l : r.id >= first_id /\ Pair(r) = p}

\* a reconciliation whose transaction committed has just ended
CommittedReconciliation ==
    /\ pc = "idle"
    /\ pc' = "stored"
    /\ recon'.committed

\* C34 as stated: for every pair that is in the result more than once,
\* exactly one row is inserted, with the coordinates of the first
\* occurrence, in rebuild mode as well as in append mode.
C34_RepeatedPairInsertedOnce ==
    [][CommittedReconciliation =>
          \A p \in Repeated(recon'.calculated_data) :
             /\ Cardinality(InsertedFor(ledger', recon'.first_id, p)) = 1
             /\ \A r \in InsertedFor(ledger', recon'.first_id, p) :
                   /\ r.transit_lon = FirstOccurrence(recon'.calculated_data, p).transit_lon
                   /\ r.transit_lat = FirstOccurrence(recon'.calculated_data, p).transit_lat]_vars

\* the pairs of a result that a reconciliation inserts: all of them in
\* rebuild mode, those not yet stored in append mode
PairsToInsert(l, found, clear_existing) ==
    {p \in ResultPairs(found) : clear_existing \/ p \notin LedgerPairs(l)}

\* C34: for every pair that is in the result more than once, exactly one
\* row is inserted, with the coordinates of the first occurrence, unless the
\* run is in append mode and the pair is already stored: then no row is
\* inserted for it. Every occurrence that is not inserted counts as skipped.
C34_RepeatedPairInsertedOnceIfNew ==
    [][CommittedReconciliation =>
          /\ \A p \in Repeated(recon'.calculated_data) :
                IF p \in PairsToInsert(ledger, recon'.calculated_data, recon'.clear_existing)
                THEN /\ Cardinality(InsertedFor(ledger', recon'.first_id, p)) = 1
                     /\ \A r \in InsertedFor(ledger', recon'.first_id, p) :
                           /\ r.transit_lon =
                                 FirstOccurrence(recon'.calculated_data, p).transit_lon
                           /\ r.transit_lat =
                                 FirstOccurrence(recon'.calculated_data, p).transit_lat
                ELSE InsertedFor(ledger', recon'.first_id, p) = {}
          /\ recon'.skipped_count =
                Len(recon'.calculated_data)
                   - Cardinality(PairsToInsert(ledger, recon'.calculated_data,
                                               recon'.clear_existing))]_vars

\* a rebuild whose result has one pair twice, with two longitudes: one row
\* with the first longitude was inserted and one occurrence was skipped
C34_Witness ==
    /\ pc = "stored"
    /\ recon.committed
    /\ recon.clear_existing
    /\ Len(recon.calculated_data) = 2
    /\ recon.calculated_data[1].transit_id = recon.calculated_data[2].transit_id
    /\ recon.calculated_data[1].transit_lon # recon.calculated_data[2].transit_lon
    /\ recon.created_count = 1
    /\ recon.skipped_count = 1
    /\ \E r \in ledger : /\ r.id = recon.first_id
                         /\ r.transit_lon = recon.calculated_data[1].transit_lon

\* C36: in the summary of every pass that went through the publish loop,
\* every selected row is counted once: confirmed is the number of
\* iterations that ended confirmed, failed the number of all others (a
\* timeout among them), and confirmed + failed = found.
C36_EveryRowCountedOnce ==
    (pc = "done" /\ report.kind = "summary") =>
        /\ report.found = Len(collisions_to_publish)
        /\ Len(outcomes) = report.found
        /\ report.confirmed =
              Cardinality({i \in 1..Len(outcomes) : outcomes[i] = "confirmed"})
        /\ report.failed =
              Cardinality({i \in 1..Len(outcomes) : outcomes[i] # "confirmed"})
        /\ report.confirmed + report.failed = report.found

\* the summary of a pass over two rows, one timed out and one confirmed
C36_Witness ==
    /\ pc = "done"
    /\ report.kind = "summary"
    /\ outcomes = <<"timeout", "confirmed">>
    /\ report.found = 2
    /\ report.confirmed = 1
    /\ report.failed = 1

\* C37: a reconciliation whose transaction committed reports created +
\* skipped = the number of rows of the detector result, and created = the
\* number of rows it added to the table; one whose transaction failed
\* reports created = 0 and has added no row.
C37_CountsMatchLedger ==
    [][(pc = "idle" /\ pc' = "stored") =>
          IF recon'.committed
          THEN /\ recon'.created_count + recon'.skipped_count
                     = Len(recon'.calculated_data)
               /\ recon'.created_count
                     = Cardinality(LedgerIds(ledger') \ LedgerIds(ledger))
          ELSE /\ recon'.created_count = 0
               /\ ledger' = ledger]_vars

\* C38: a publish pass started on a table without unpublished row ends at
\* once: no client is created and no connection opened, nothing is handed
\* to the transport, and no row of the table is changed, neither by the
\* start of the pass nor by its return.
C38_NothingUnpublishedNoConnection ==
    [][(UnpublishedIds(ledger) = {} /\ pc \in {"idle", "done"}
          /\ pc' \in {"connect", "loop", "mark", "cleanup", "done", "idle"}
          /\ pc' # pc) =>
          /\ pc = "idle" => pc' = "done"
          /\ mqtt_client' = "none"
          /\ ledger' = ledger
          /\ sent' = sent
          /\ acked' = acked]_vars

\* a pass on a table whose only row is published has ended without client
C38_Witness ==
    /\ pc = "done"
    /\ report = [kind |-> "early", outcome |-> "nothing_found"]
    /\ ledger # {}
    /\ UnpublishedIds(ledger) = {}
    /\ mqtt_client = "none"

====
